---- MODULE Spec2Model ----
(***************************************************************************)
(* The conversation-turn state machine of pydantic_ai.Agent and the retry  *)
(* accounting of pydantic_ai._retriever.Retriever.                         *)
(*                                                                         *)
(* One Agent object is modelled.  Its construction parameters are chosen   *)
(* in Init; afterwards the caller starts runs one after the other, the     *)
(* model answers every request with an arbitrary turn, and the retriever   *)
(* coroutines of one turn make progress in every order the asyncio event   *)
(* loop allows.                                                            *)
(***************************************************************************)
EXTENDS Integers, Sequences, FiniteSets, TLC

(***************************************************************************)
(* Bounds of the model.                                                    *)
(***************************************************************************)
MaxRetries == 1        \* largest `retries` the agent is constructed with
MaxCalls == 2          \* most tool calls in one model turn
MaxTurns == 2          \* most model requests the agent makes, over all its runs

(***************************************************************************)
(* Names and inputs.                                                       *)
(***************************************************************************)
RetrieverNames == {"A", "B"}
UnknownName == "U"
result_tool_name == "final_result"
ToolNames == RetrieverNames \cup {UnknownName, result_tool_name}
Texts == {"text1", "text2"}

None == [kind |-> "None"]
Some(v) == [kind |-> "Some", value |-> v]

(***************************************************************************)
(* Messages.                                                               *)
(***************************************************************************)
SystemPrompt(content) == [role |-> "system", content |-> content]
UserPrompt(content) == [role |-> "user", content |-> content]
LLMResponse(content) == [role |-> "llm-response", content |-> content]
ToolCall(tool_name, tool_id) == [tool_name |-> tool_name, tool_id |-> tool_id]
LLMToolCalls(calls) == [role |-> "llm-tool-calls", calls |-> calls]
PlainResponseForbidden == [role |-> "plain-response-forbidden"]

ToolReturn(tool_name, content, tool_id) ==
    [role |-> "tool-return", tool_name |-> tool_name, content |-> content, tool_id |-> tool_id]

ToolRetry(tool_name, content, tool_id) ==
    [role |-> "tool-retry", tool_name |-> tool_name, content |-> content, tool_id |-> tool_id]

VARIABLES
    _result_tool,            \* Agent._result_tool: None or the result schema
    _allow_text_result,      \* Agent._allow_text_result
    max_retries,             \* Retriever.max_retries, by retriever name
    _max_result_retries,     \* Agent._max_result_retries
    _current_retry,          \* Retriever._current_retry, by retriever name
    _current_result_retry,   \* Agent._current_result_retry
    messages,                \* the `messages` list of the run in progress
    pc,                      \* where the run is: idle, request, gather, returned, raised
    error,                   \* the exception that ended the run, or "none"
    run_result,              \* None, or Some(value of the RunResult returned)
    coros,                   \* the retriever coroutines handed to asyncio.gather
    detached,                \* coroutines of a failed gather still running, by name
    n_requests,              \* model requests made so far, over all runs
    n_runs,                  \* run() calls that reached the loop so far
    completion_order,        \* history: positions of the coroutines of the last
                             \* gather, in the order they finished
    consecutive_failures,    \* history: failed calls of a retriever since its last
                             \* reset or success
    caller_history,          \* the message_history argument of the run in progress:
                             \* None, or Some(the caller's list as it was passed)
    messages_id,             \* the identity of the list object `messages` is bound to
    system_prompt_calls,     \* how often the run in progress has invoked each
                             \* dynamic system-prompt function
    other                    \* the local state of a second run() task on the agent

vars == <<_result_tool, _allow_text_result, max_retries, _max_result_retries,
          _current_retry, _current_result_retry, messages, pc, error, run_result,
          coros, detached, n_requests, n_runs, completion_order,
          consecutive_failures, caller_history, messages_id, system_prompt_calls,
          other>>

config == <<_result_tool, _allow_text_result, max_retries, _max_result_retries>>

\* What a run() call got from its caller and built before its loop.
caller == <<caller_history, messages_id, system_prompt_calls>>

(***************************************************************************)
(* Agent.__init__ and the retriever registrations: the agent is made with  *)
(* `retries` and no `result_retries`; A is registered with the agent's      *)
(* default and B with retries=1.                                           *)
(***************************************************************************)
ResultSchema(allow_text_result) ==
    [kind |-> "ResultSchema", name |-> result_tool_name, allow_text_result |-> allow_text_result]

\* Mutant of AllowTextResult: the schema's allow_text_result is not consulted.
AllowTextResult_none_only(result_tool) == result_tool = None

AllowTextResult(result_tool) ==
    result_tool = None \/ (result_tool # None /\ result_tool.allow_text_result)

Init ==
    /\ _result_tool \in {None} \cup {ResultSchema(b) : b \in BOOLEAN}
    /\ _allow_text_result = AllowTextResult(_result_tool)
    /\ \E retries \in 0..MaxRetries :
          /\ max_retries = [A |-> retries, B |-> 1]
          /\ _max_result_retries = retries
    /\ _current_retry = [name \in RetrieverNames |-> 0]
    /\ _current_result_retry = 0
    /\ messages = <<>>
    /\ pc = "idle"
    /\ error = "none"
    /\ run_result = None
    /\ coros = <<>>
    /\ detached = [name \in RetrieverNames |-> 0]
    /\ n_requests = 0
    /\ n_runs = 0
    /\ completion_order = <<>>
    /\ consecutive_failures = [name \in RetrieverNames |-> 0]
    /\ caller_history = None
    /\ messages_id = 0
    /\ system_prompt_calls = <<0, 0>>
    /\ other = [messages |-> <<>>, pc |-> "idle", error |-> "none", run_result |-> None,
                coros |-> <<>>, completion_order |-> <<>>, caller_history |-> None,
                messages_id |-> 0, system_prompt_calls |-> <<0, 0>>]

(***************************************************************************)
(* Retriever (_retriever.py).                                              *)
(***************************************************************************)
\* Mutant of reset: the counter is left as it is.
reset_keep(current_retry) == current_retry

\* Retriever.reset: the value given to _current_retry.
reset(current_retry) == 0

\* Mutant of _on_error: the budget is exhausted one failure early (>= for >).
_on_error_ge(current_retry, maxr, content, call_message) ==
    LET incremented == current_retry + 1 IN
    [_current_retry |-> incremented,
     raised |-> incremented >= maxr,
     message |-> IF incremented >= maxr
                 THEN None
                 ELSE ToolRetry(call_message.tool_name, content, call_message.tool_id)]

\* Mutant of _on_error: the counter is compared before it is incremented.
_on_error_compare_first(current_retry, maxr, content, call_message) ==
    [_current_retry |-> current_retry + 1,
     raised |-> current_retry > maxr,
     message |-> IF current_retry > maxr
                 THEN None
                 ELSE ToolRetry(call_message.tool_name, content, call_message.tool_id)]

\* Mutant of _on_error: the ToolRetry does not carry the call's tool_id.
_on_error_no_id(current_retry, maxr, content, call_message) ==
    LET incremented == current_retry + 1 IN
    [_current_retry |-> incremented,
     raised |-> incremented > maxr,
     message |-> IF incremented > maxr
                 THEN None
                 ELSE ToolRetry(call_message.tool_name, content, 0)]

\* Retriever._on_error: the counter after the failure, whether the exception
\* being handled is re-raised, and the message returned otherwise.
_on_error(current_retry, maxr, content, call_message) ==
    LET incremented == current_retry + 1 IN
    [_current_retry |-> incremented,
     raised |-> incremented > maxr,
     message |-> IF incremented > maxr
                 THEN None
                 ELSE ToolRetry(call_message.tool_name, content, call_message.tool_id)]

\* Mutant of run_success: the counter is not reset.
run_success_keep(current_retry, response_content, message) ==
    [_current_retry |-> current_retry,
     raised |-> FALSE,
     message |-> ToolReturn(message.tool_name, response_content, message.tool_id)]

\* Retriever.run, the success path: the counter and the message returned.
run_success(current_retry, response_content, message) ==
    [_current_retry |-> 0,
     raised |-> FALSE,
     message |-> ToolReturn(message.tool_name, response_content, message.tool_id)]

\* A coroutine object made by retriever.run(deps, call).
Coroutine(call) == [call |-> call, st |-> "created", result |-> None]

\* Mutant of Finish: the step writes the counter of every retriever.
Finish_all_counters(i, outcome) ==
    LET name == coros[i].call.tool_name IN
    /\ _current_retry' = [n \in RetrieverNames |-> outcome._current_retry]
    /\ coros' = [coros EXCEPT ![i].st = IF outcome.raised THEN "raised" ELSE "done",
                              ![i].result = outcome.message]
    /\ completion_order' = Append(completion_order, i)
    /\ consecutive_failures' =
          [consecutive_failures EXCEPT
              ![name] = IF outcome.message # None /\ outcome.message.role = "tool-return"
                        THEN 0 ELSE @ + 1]

\* What one finished step of Retriever.run leaves in the retriever and in the
\* coroutine at position i.
Finish(i, outcome) ==
    LET name == coros[i].call.tool_name IN
    /\ _current_retry' = [_current_retry EXCEPT ![name] = outcome._current_retry]
    /\ coros' = [coros EXCEPT ![i].st = IF outcome.raised THEN "raised" ELSE "done",
                              ![i].result = outcome.message]
    /\ completion_order' = Append(completion_order, i)
    /\ consecutive_failures' =
          [consecutive_failures EXCEPT
              ![name] = IF outcome.message # None /\ outcome.message.role = "tool-return"
                        THEN 0 ELSE @ + 1]

\* Retriever.run up to the call of the function: the arguments are validated;
\* asyncio starts the coroutines of a gather in the order they were passed.
RunValidate(i) ==
    /\ pc = "gather"
    /\ i \in 1..Len(coros)
    /\ coros[i].st = "created"
    /\ \A j \in 1..(i - 1) : coros[j].st # "created"
    /\ \E valid \in BOOLEAN :
          IF valid
          THEN /\ coros' = [coros EXCEPT ![i].st = "running"]
               /\ UNCHANGED <<_current_retry, completion_order, consecutive_failures>>
          ELSE LET name == coros[i].call.tool_name IN
               Finish(i, _on_error(_current_retry[name], max_retries[name],
                                   "validation-errors", coros[i].call))
    /\ UNCHANGED <<config, caller, other,
                   _current_result_retry, messages, pc, error, run_result,
                   detached, n_requests, n_runs>>

\* Retriever.run from the call of the function on: it returns a response or
\* raises ModelRetry.
RunFunction(i) ==
    /\ pc = "gather"
    /\ i \in 1..Len(coros)
    /\ coros[i].st = "running"
    /\ LET name == coros[i].call.tool_name IN
       \E model_retry \in BOOLEAN :
          IF model_retry
          THEN Finish(i, _on_error(_current_retry[name], max_retries[name],
                                   "retry-message", coros[i].call))
          ELSE Finish(i, run_success(_current_retry[name], "response", coros[i].call))
    /\ UNCHANGED <<config, caller, other,
                   _current_result_retry, messages, pc, error, run_result,
                   detached, n_requests, n_runs>>

\* A coroutine of a gather that already failed finishes its function: nobody
\* awaits its message, the retriever's counter is written all the same.
DetachedFunction(name) ==
    /\ detached[name] > 0
    /\ detached' = [detached EXCEPT ![name] = @ - 1]
    /\ \E model_retry \in BOOLEAN :
          LET call == ToolCall(name, 0)
              outcome == IF model_retry
                         THEN _on_error(_current_retry[name], max_retries[name],
                                        "retry-message", call)
                         ELSE run_success(_current_retry[name], "response", call)
          IN /\ _current_retry' = [_current_retry EXCEPT ![name] = outcome._current_retry]
             /\ consecutive_failures' =
                   [consecutive_failures EXCEPT ![name] = IF model_retry THEN @ + 1 ELSE 0]
    /\ UNCHANGED <<config, caller, other,
                   _current_result_retry, messages, pc, error, run_result,
                   coros, n_requests, n_runs, completion_order>>

(***************************************************************************)
(* Agent.run (agent.py).                                                   *)
(***************************************************************************)
_system_prompts == <<"static-prompt">>

\* The prompts the registered dynamic system-prompt functions produce.
_system_prompt_functions == <<"dynamic-prompt-1", "dynamic-prompt-2">>

\* Agent._init_messages
_init_messages ==
    [i \in 1..Len(_system_prompts) |-> SystemPrompt(_system_prompts[i])]
    \o [i \in 1..Len(_system_prompt_functions) |-> SystemPrompt(_system_prompt_functions[i])]

\* A list object: its identity and its items.
ListObject(id, items) == [id |-> id, items |-> items]

\* Mutant of copy: the same list object is returned.
copy_alias(list) == list

\* list.copy(): a new list object with the same items.
copy(list) == ListObject(list.id + 1, list.items)

\* The values of run()'s message_history argument: None or a list of the caller.
MessageHistories ==
    {None,
     Some(ListObject(1, <<>>)),
     Some(ListObject(1, <<UserPrompt("earlier-prompt"), LLMResponse("text1")>>))}

\* `message_history is not None`
has_history(message_history) == message_history # None

\* The messages list run() starts its loop with.
initial_messages(message_history, user_prompt) ==
    LET msgs == IF has_history(message_history)
                THEN copy(message_history.value)
                ELSE ListObject(2, _init_messages)
    IN ListObject(msgs.id, Append(msgs.items, UserPrompt(user_prompt)))

\* How often run() invokes each dynamic system-prompt function: once, in
\* _init_messages, which is called only without a history.
system_prompt_runs(message_history) ==
    [i \in 1..Len(_system_prompt_functions) |-> IF has_history(message_history) THEN 0 ELSE 1]

\* run() called while neither the agent nor the call names a model.
RunWithoutModel ==
    /\ pc \in {"idle", "returned", "raised"}
    /\ pc' = "raised"
    /\ error' = "RuntimeError: model must be set"
    /\ messages' = <<>>
    /\ run_result' = None
    /\ completion_order' = <<>>
    /\ caller_history' = None
    /\ messages_id' = 0
    /\ system_prompt_calls' = [i \in 1..Len(_system_prompt_functions) |-> 0]
    /\ UNCHANGED <<config, other, _current_retry, _current_result_retry, coros, detached,
                   n_requests, n_runs, consecutive_failures>>

\* Mutant of Run: the retrievers are not reset while another run is under way.
Run_reset_when_alone(message_history) ==
    /\ pc \in {"idle", "returned", "raised"}
    /\ n_requests < MaxTurns
    /\ n_runs' = n_runs + 1
    /\ caller_history' = message_history
    /\ messages' = initial_messages(message_history, "user-prompt").items
    /\ messages_id' = initial_messages(message_history, "user-prompt").id
    /\ system_prompt_calls' = system_prompt_runs(message_history)
    /\ _current_retry' = IF other.pc \in {"request", "gather"}
                         THEN _current_retry
                         ELSE [name \in RetrieverNames |-> reset(_current_retry[name])]
    /\ consecutive_failures' = [name \in RetrieverNames |-> 0]
    /\ pc' = "request"
    /\ error' = "none"
    /\ run_result' = None
    /\ completion_order' = <<>>
    /\ UNCHANGED <<config, other, _current_result_retry, coros, detached, n_requests>>

\* Mutant of Run: the result-retry counter is reset with the retrievers.
Run_resets_result_retry(message_history) ==
    /\ pc \in {"idle", "returned", "raised"}
    /\ n_requests < MaxTurns
    /\ n_runs' = n_runs + 1
    /\ caller_history' = message_history
    /\ messages' = initial_messages(message_history, "user-prompt").items
    /\ messages_id' = initial_messages(message_history, "user-prompt").id
    /\ system_prompt_calls' = system_prompt_runs(message_history)
    /\ _current_retry' = [name \in RetrieverNames |-> reset(_current_retry[name])]
    /\ _current_result_retry' = 0
    /\ consecutive_failures' = [name \in RetrieverNames |-> 0]
    /\ pc' = "request"
    /\ error' = "none"
    /\ run_result' = None
    /\ completion_order' = <<>>
    /\ UNCHANGED <<config, other, coros, detached, n_requests>>

\* run() up to its loop: the messages are built and every retriever is reset.
Run(message_history) ==
    /\ pc \in {"idle", "returned", "raised"}
    /\ n_requests < MaxTurns
    /\ n_runs' = n_runs + 1
    /\ caller_history' = message_history
    /\ messages' = initial_messages(message_history, "user-prompt").items
    /\ messages_id' = initial_messages(message_history, "user-prompt").id
    /\ system_prompt_calls' = system_prompt_runs(message_history)
    /\ _current_retry' = [name \in RetrieverNames |-> reset(_current_retry[name])]
    /\ consecutive_failures' = [name \in RetrieverNames |-> 0]
    /\ pc' = "request"
    /\ error' = "none"
    /\ run_result' = None
    /\ completion_order' = <<>>
    /\ UNCHANGED <<config, other, _current_result_retry, coros, detached, n_requests>>

(***************************************************************************)
(* The model's turns.                                                      *)
(***************************************************************************)
CallId(turn, i) == 10 * turn + i

CallNames == UNION {[1..n -> ToolNames] : n \in 0..MaxCalls}

Calls(names, turn) == [i \in 1..Len(names) |-> ToolCall(names[i], CallId(turn, i))]

\* agent_model.request(messages): the loop of run() asks the model for a turn.
Request ==
    /\ pc = "request"
    /\ n_requests < MaxTurns
    /\ n_requests' = n_requests + 1
    /\ completion_order' = <<>>

(***************************************************************************)
(* Agent._handle_model_response (agent.py).                                *)
(***************************************************************************)
\* Mutant of plain_response: the text is returned whether or not it is allowed.
plain_response_always(allow_text_result, msgs, llm_message) ==
    [messages |-> IF allow_text_result
                  THEN Append(msgs, llm_message)
                  ELSE Append(msgs, llm_message) \o <<PlainResponseForbidden>>,
     opt_result |-> Some(llm_message.content)]

\* The 'llm-response' branch: the messages afterwards and the Option returned.
plain_response(allow_text_result, msgs, llm_message) ==
    IF allow_text_result
    THEN [messages |-> Append(msgs, llm_message), opt_result |-> Some(llm_message.content)]
    ELSE [messages |-> Append(msgs, llm_message) \o <<PlainResponseForbidden>>,
          opt_result |-> None]

\* Mutant of HandleResponse: a forbidden text counts as a result retry.
HandleResponse_counts_retry(text) ==
    /\ Request
    /\ LET handled == plain_response(_allow_text_result, messages, LLMResponse(text))
           raised == _current_result_retry + 1 > _max_result_retries
       IN
       /\ messages' = handled.messages
       /\ run_result' = handled.opt_result
       /\ IF handled.opt_result # None
          THEN pc' = "returned" /\ UNCHANGED <<_current_result_retry, error>>
          ELSE /\ _current_result_retry' = _current_result_retry + 1
               /\ pc' = IF raised THEN "raised" ELSE "request"
               /\ error' = IF raised THEN "RuntimeError: Exceeded maximum retries" ELSE error
    /\ UNCHANGED <<config, caller, other,
                   _current_retry, coros, detached, n_runs, consecutive_failures>>

HandleResponse(text) ==
    /\ Request
    /\ LET handled == plain_response(_allow_text_result, messages, LLMResponse(text)) IN
       /\ messages' = handled.messages
       /\ run_result' = handled.opt_result
       /\ pc' = IF handled.opt_result # None THEN "returned" ELSE "request"
    /\ UNCHANGED <<config, caller, other,
                   _current_retry, _current_result_retry, error, coros, detached,
                   n_runs, consecutive_failures>>

\* next((c for c in llm_message.calls if c.tool_name == self._result_tool.name), None)
result_call(result_tool, calls) ==
    LET hits == {i \in 1..Len(calls) : calls[i].tool_name = result_tool.name} IN
    IF hits = {} THEN None ELSE calls[CHOOSE i \in hits : \A j \in hits : i <= j]

\* Mutant of is_result_turn: only the first call of the turn is looked at.
is_result_turn_first_only(result_tool, calls) ==
    result_tool # None /\ Len(calls) > 0 /\ calls[1].tool_name = result_tool.name

\* Whether the turn is handled as a result: a schema is configured and a call names it.
is_result_turn(result_tool, calls) ==
    result_tool # None /\ result_call(result_tool, calls) # None

\* The ToolRetry message a ToolRetryError carries for the call it was raised for.
tool_retry(call, content) == ToolRetry(call.tool_name, content, call.tool_id)

\* Mutant of _incr_result_retry: the budget is exhausted one failure early.
_incr_result_retry_ge(current_result_retry, max_result_retries) ==
    [_current_result_retry |-> current_result_retry + 1,
     raised |-> current_result_retry + 1 >= max_result_retries]

\* Mutant of _incr_result_retry: RuntimeError is never raised.
_incr_result_retry_unbounded(current_result_retry, max_result_retries) ==
    [_current_result_retry |-> current_result_retry + 1,
     raised |-> FALSE]

\* Agent._incr_result_retry: the counter afterwards and whether RuntimeError is raised.
_incr_result_retry(current_result_retry, max_result_retries) ==
    [_current_result_retry |-> current_result_retry + 1,
     raised |-> current_result_retry + 1 > max_result_retries]

\* A turn with a call to the result tool: the call is validated, by the schema
\* and then by the result validators; either may raise ToolRetryError.
HandleResultCall(names) ==
    /\ Request
    /\ LET calls == Calls(names, n_requests + 1)
           llm_message == LLMToolCalls(calls)
       IN
       /\ is_result_turn(_result_tool, calls)
       /\ \E validated \in {"result", "validation-errors", "retry-message"} :
             IF validated = "result"
             THEN /\ messages' = Append(messages, llm_message)
                  /\ run_result' = Some("result")
                  /\ pc' = "returned"
                  /\ UNCHANGED <<_current_result_retry, error>>
             ELSE LET incr == _incr_result_retry(_current_result_retry, _max_result_retries)
                      e == tool_retry(result_call(_result_tool, calls), validated)
                  IN
                  /\ _current_result_retry' = incr._current_result_retry
                  /\ run_result' = None
                  /\ IF incr.raised
                     THEN /\ messages' = Append(messages, llm_message)
                          /\ pc' = "raised"
                          /\ error' = "RuntimeError: Exceeded maximum retries"
                     ELSE /\ messages' = Append(messages, llm_message) \o <<e>>
                          /\ pc' = "request"
                          /\ UNCHANGED error
    /\ UNCHANGED <<config, caller, other,
                   _current_retry, coros, detached, n_runs, consecutive_failures>>

\* Mutant of make_coros: calls that name no registered retriever are skipped.
make_coros_skip_unknown(retriever_names, calls) ==
    LET known == SelectSeq(calls, LAMBDA c : c.tool_name \in retriever_names) IN
    Some([i \in 1..Len(known) |-> Coroutine(known[i])])

\* The loop over llm_message.calls: the coroutines made, or None when a call
\* names no registered retriever (ValueError).
make_coros(retriever_names, calls) ==
    IF \E i \in 1..Len(calls) : calls[i].tool_name \notin retriever_names
    THEN None
    ELSE Some([i \in 1..Len(calls) |-> Coroutine(calls[i])])

\* A turn of calls one of which names no registered retriever.
HandleUnknownName(names) ==
    /\ Request
    /\ LET calls == Calls(names, n_requests + 1) IN
       /\ ~ is_result_turn(_result_tool, calls)
       /\ make_coros(RetrieverNames, calls) = None
       /\ messages' = Append(messages, LLMToolCalls(calls))
    /\ pc' = "raised"
    /\ error' = "ValueError: Unknown function name"
    /\ UNCHANGED <<config, caller, other,
                   _current_retry, _current_result_retry, run_result, coros,
                   detached, n_runs, consecutive_failures>>

\* Mutant of HandleToolCalls: the gather is not awaited, the loop goes on at once.
HandleToolCalls_no_await(names) ==
    /\ pc = "request"
    /\ n_requests < MaxTurns
    /\ n_requests' = n_requests + 1
    /\ completion_order' = <<>>
    /\ LET calls == Calls(names, n_requests + 1) IN
       /\ (_result_tool = None \/ \A i \in 1..Len(calls) : calls[i].tool_name # result_tool_name)
       /\ \A i \in 1..Len(calls) : calls[i].tool_name \in RetrieverNames
       /\ messages' = Append(messages, LLMToolCalls(calls))
       /\ coros' = [i \in 1..Len(calls) |-> [call |-> calls[i], st |-> "created", result |-> None]]
    /\ pc' = "request"
    /\ UNCHANGED <<config, caller, other,
                   _current_retry, _current_result_retry, error, run_result,
                   detached, n_runs, consecutive_failures>>

\* A turn of calls to registered retrievers: the coroutines are handed to
\* asyncio.gather and the handler waits for them.
HandleToolCalls(names) ==
    /\ Request
    /\ LET calls == Calls(names, n_requests + 1) IN
       /\ ~ is_result_turn(_result_tool, calls)
       /\ make_coros(RetrieverNames, calls) # None
       /\ messages' = Append(messages, LLMToolCalls(calls))
       /\ coros' = make_coros(RetrieverNames, calls).value
    /\ pc' = "gather"
    /\ UNCHANGED <<config, caller, other,
                   _current_retry, _current_result_retry, error, run_result,
                   detached, n_runs, consecutive_failures>>

\* Mutant of gather: the results come in the order the coroutines finished.
gather_completion_order(cs) == [k \in 1..Len(cs) |-> cs[completion_order[k]].result]

\* The messages asyncio.gather returns: the coroutines' results by position.
gather(cs) == [i \in 1..Len(cs) |-> cs[i].result]

\* Mutant of GatherReturns: the run ends after a round of tool calls.
GatherReturns_ends_run ==
    /\ pc = "gather"
    /\ \A i \in 1..Len(coros) : coros[i].st = "done"
    /\ messages' = messages \o gather(coros)
    /\ coros' = <<>>
    /\ pc' = "returned"
    /\ run_result' = Some("response")
    /\ UNCHANGED <<config, caller, other,
                   _current_retry, _current_result_retry, error,
                   detached, n_requests, n_runs, completion_order, consecutive_failures>>

\* Every coroutine has returned: `messages += await asyncio.gather(*coros)`,
\* the handler returns None and the loop goes on.
GatherReturns ==
    /\ pc = "gather"
    /\ \A i \in 1..Len(coros) : coros[i].st = "done"
    /\ messages' = messages \o gather(coros)
    /\ coros' = <<>>
    /\ pc' = "request"
    /\ UNCHANGED <<config, caller, other,
                   _current_retry, _current_result_retry, error, run_result,
                   detached, n_requests, n_runs, completion_order, consecutive_failures>>

\* The coroutines that go on running after gather has raised, by retriever.
still_running(cs) ==
    [name \in RetrieverNames |->
        Cardinality({i \in 1..Len(cs) : cs[i].st = "running" /\ cs[i].call.tool_name = name})]

\* Mutant of GatherRaises: the messages of the calls that returned are kept.
GatherRaises_keeps_returned ==
    /\ pc = "gather"
    /\ \E i \in 1..Len(coros) : coros[i].st = "raised"
    /\ \A i \in 1..Len(coros) : coros[i].st # "created"
    /\ detached' = [name \in RetrieverNames |-> detached[name] + still_running(coros)[name]]
    /\ messages' = messages \o SelectSeq(gather(coros), LAMBDA m : m # None)
    /\ coros' = <<>>
    /\ pc' = "raised"
    /\ error' = "retry limit exceeded"
    /\ UNCHANGED <<config, caller, other,
                   _current_retry, _current_result_retry, run_result,
                   n_requests, n_runs, completion_order, consecutive_failures>>

\* A coroutine has raised: gather raises its exception in the handler as soon
\* as the event loop runs it again, which is after every coroutine was started;
\* the run ends with the exception and the other coroutines are not cancelled.
GatherRaises ==
    /\ pc = "gather"
    /\ \E i \in 1..Len(coros) : coros[i].st = "raised"
    /\ \A i \in 1..Len(coros) : coros[i].st # "created"
    /\ detached' = [name \in RetrieverNames |-> detached[name] + still_running(coros)[name]]
    /\ coros' = <<>>
    /\ pc' = "raised"
    /\ error' = "retry limit exceeded"
    /\ UNCHANGED <<config, caller, other,
                   _current_retry, _current_result_retry, messages, run_result,
                   n_requests, n_runs, completion_order, consecutive_failures>>

Next ==
    \/ RunWithoutModel
    \/ Run(None)
    \/ \E text \in Texts : HandleResponse(text)
    \/ \E names \in CallNames : HandleResultCall(names)
    \/ \E names \in CallNames : HandleUnknownName(names)
    \/ \E names \in CallNames : HandleToolCalls(names)
    \/ \E i \in 1..MaxCalls : RunValidate(i)
    \/ \E i \in 1..MaxCalls : RunFunction(i)
    \/ \E name \in RetrieverNames : DetachedFunction(name)
    \/ GatherReturns
    \/ GatherRaises

Spec == Init /\ [][Next]_vars

(***************************************************************************)
(* Runs that continue a conversation: run() is given a message history.    *)
(***************************************************************************)
RunWithHistory ==
    \E message_history \in MessageHistories \ {None} : Run(message_history)

NextHistory == Next \/ RunWithHistory

\* The agent of these runs has a result tool that also allows a text result.
InitHistory == Init /\ _result_tool = ResultSchema(TRUE)

SpecHistory == InitHistory /\ [][NextHistory]_vars

(***************************************************************************)
(* Two run() tasks on one agent.  The variables messages .. completion_order *)
(* hold the local state of the task the event loop is running, `other` that *)
(* of the task that is suspended; every action above is one uninterrupted   *)
(* step of a task, so the event loop may change tasks between any two.      *)
(***************************************************************************)
local ==
    [messages |-> messages, pc |-> pc, error |-> error, run_result |-> run_result,
     coros |-> coros, completion_order |-> completion_order,
     caller_history |-> caller_history, messages_id |-> messages_id,
     system_prompt_calls |-> system_prompt_calls]

Switch ==
    /\ other # local
    /\ other' = local
    /\ messages' = other.messages
    /\ pc' = other.pc
    /\ error' = other.error
    /\ run_result' = other.run_result
    /\ coros' = other.coros
    /\ completion_order' = other.completion_order
    /\ caller_history' = other.caller_history
    /\ messages_id' = other.messages_id
    /\ system_prompt_calls' = other.system_prompt_calls
    /\ UNCHANGED <<config, _current_retry, _current_result_retry, detached, n_requests,
                   n_runs, consecutive_failures>>

\* The turns of the concurrent runs: one call to a registered retriever.
RetrieverCallNames == {<<name>> : name \in RetrieverNames}

NextConcurrent ==
    \/ Run(None)
    \/ \E names \in RetrieverCallNames : HandleToolCalls(names)
    \/ \E i \in 1..MaxCalls : RunValidate(i)
    \/ \E i \in 1..MaxCalls : RunFunction(i)
    \/ GatherReturns
    \/ GatherRaises
    \/ Switch

\* The agent of these runs has no result tool; both retrievers may be retried.
InitConcurrent == Init /\ _result_tool = None /\ max_retries["A"] = MaxRetries

SpecConcurrent == InitConcurrent /\ [][NextConcurrent]_vars

(***************************************************************************)
(* Vocabulary of the properties.                                           *)
(***************************************************************************)
\* The step hands a model turn to _handle_model_response; TurnMessage is it.
TurnHandled == n_requests' = n_requests + 1
TurnMessage == messages'[Len(messages) + 1]

IsToolCalls(m) == m.role = "llm-tool-calls"
IsToolResult(m) == m.role \in {"tool-return", "tool-retry"}

\* The turn has a call that names the configured result tool.
HasResultCall(calls) ==
    _result_tool # None /\ \E i \in 1..Len(calls) : calls[i].tool_name = result_tool_name

\* The coroutine at position i finishes its call in this step / fails in it /
\* succeeds in it.
CallFinishes(i) ==
    /\ pc = "gather" /\ pc' = "gather"
    /\ coros[i].st \in {"created", "running"}
    /\ coros'[i].st \in {"done", "raised"}
CallFails(i) ==
    CallFinishes(i) /\ (coros'[i].st = "raised" \/ coros'[i].result.role = "tool-retry")
CallSucceeds(i) ==
    CallFinishes(i) /\ coros'[i].st = "done" /\ coros'[i].result.role = "tool-return"

(***************************************************************************)
(* Properties.                                                             *)
(***************************************************************************)
\* C1: the k-th failure in a row of a retriever registered with max_retries = N
\* (no success and no reset in between) returns a ToolRetry and leaves the
\* counter at k as long as k <= N; the (N+1)-th raises and returns no message,
\* and the gather it belongs to never returns its messages to the handler.
C1_RetriesThenFatal ==
    [][/\ \A i \in 1..Len(coros) : CallFails(i) =>
             LET name == coros[i].call.tool_name
                 N == max_retries[name]
                 k == consecutive_failures'[name]
             IN /\ k <= N => /\ coros'[i].st = "done"
                             /\ coros'[i].result.role = "tool-retry"
                             /\ _current_retry'[name] = k
                /\ k = N + 1 => /\ coros'[i].st = "raised"
                                /\ coros'[i].result = None
       /\ (pc = "gather" /\ \E i \in 1..Len(coros) : coros[i].st = "raised")
             => pc' \in {"gather", "raised"}]_vars

\* C1 witness: a retriever with max_retries >= 1 has failed max_retries + 1
\* times in a row, and the call that failed last has raised.
C1_Witness ==
    /\ pc = "gather"
    /\ \E i \in 1..Len(coros) :
          LET name == coros[i].call.tool_name IN
          /\ coros[i].st = "raised"
          /\ max_retries[name] >= 1
          /\ consecutive_failures[name] = max_retries[name] + 1
          /\ completion_order # <<>>
          /\ completion_order[Len(completion_order)] = i

\* C2 as stated: a failed call returns a ToolRetry only if the counter is
\* below max_retries after the increment, and raises otherwise.
C2_Original ==
    [][\A i \in 1..Len(coros) : CallFails(i) =>
          LET name == coros[i].call.tool_name IN
          /\ _current_retry'[name] = _current_retry[name] + 1
          /\ coros'[i].st = "done" <=> _current_retry'[name] < max_retries[name]
          /\ coros'[i].st = "raised" <=> _current_retry'[name] >= max_retries[name]]_vars

\* C2 amended: a failed call increments the counter; it returns a ToolRetry if
\* the counter is at most max_retries after the increment, and raises if the
\* counter is above max_retries.
C2_RetryWithinBudget ==
    [][\A i \in 1..Len(coros) : CallFails(i) =>
          LET name == coros[i].call.tool_name IN
          /\ _current_retry'[name] = _current_retry[name] + 1
          /\ coros'[i].st = "done" <=> _current_retry'[name] <= max_retries[name]
          /\ coros'[i].st = "raised" <=> _current_retry'[name] > max_retries[name]
          /\ coros'[i].st = "done" =>
                /\ coros'[i].result.role = "tool-retry"
                /\ coros'[i].result.tool_name = name
                /\ coros'[i].result.tool_id = coros[i].call.tool_id]_vars

\* C2 witness: the only call of its turn fails, returns a ToolRetry, and the
\* counter equals max_retries.
C2_Witness ==
    /\ pc = "gather"
    /\ Len(coros) = 1
    /\ coros[1].st = "done"
    /\ coros[1].result.role = "tool-retry"
    /\ max_retries[coros[1].call.tool_name] >= 1
    /\ _current_retry[coros[1].call.tool_name] = max_retries[coros[1].call.tool_name]

\* C3: a call that succeeds leaves its retriever's counter at 0, whatever the
\* counter was, and returns a ToolReturn with the call's tool_name and tool_id.
C3_SuccessResets ==
    [][\A i \in 1..Len(coros) : CallSucceeds(i) =>
          /\ coros[i].st = "running"
          /\ _current_retry'[coros[i].call.tool_name] = 0
          /\ coros'[i].result.role = "tool-return"
          /\ coros'[i].result.tool_name = coros[i].call.tool_name
          /\ coros'[i].result.tool_id = coros[i].call.tool_id]_vars

\* C3 witness: two calls of one retriever in a turn; the first failed (counter
\* 1), then the second succeeded, and the counter is 0.
C3_Witness ==
    /\ pc = "gather"
    /\ Len(coros) = 2
    /\ coros[1].call.tool_name = coros[2].call.tool_name
    /\ completion_order = <<1, 2>>
    /\ coros[1].st = "done" /\ coros[1].result.role = "tool-retry"
    /\ coros[2].st = "done" /\ coros[2].result.role = "tool-return"
    /\ _current_retry[coros[1].call.tool_name] = 0

\* C4: while the coroutines of a turn run nothing is appended; when the gather
\* returns, exactly one result per call of the model's message is appended, in
\* the order of the calls, the i-th with the i-th call's tool_name and tool_id.
C4_ResultsInCallOrder ==
    [][/\ (pc = "gather" /\ pc' = "gather") => messages' = messages
       /\ (pc = "gather" /\ pc' = "request") =>
             LET m == Len(messages)
                 calls == messages[m].calls
             IN /\ IsToolCalls(messages[m])
                /\ Len(messages') = m + Len(calls)
                /\ \A j \in 1..m : messages'[j] = messages[j]
                /\ \A i \in 1..Len(calls) :
                      /\ IsToolResult(messages'[m + i])
                      /\ messages'[m + i].tool_name = calls[i].tool_name
                      /\ messages'[m + i].tool_id = calls[i].tool_id]_vars

\* C4 witness: the results of a turn of at least two calls to different
\* retrievers have been appended, and the last call finished first.
C4_Witness ==
    /\ pc = "request"
    /\ Len(completion_order) >= 2
    /\ completion_order[1] = Len(completion_order)
    /\ LET n == Len(completion_order)
           m == Len(messages) - n
       IN /\ m >= 1
          /\ IsToolCalls(messages[m])
          /\ Len(messages[m].calls) = n
          /\ messages[m].calls[1].tool_name # messages[m].calls[n].tool_name
          /\ \A i \in 1..n : IsToolResult(messages[m + i])

\* C5: when a result schema is configured and a turn has a call naming the
\* result tool, no coroutine is made, no retriever counter changes, the only
\* message that may follow the model's message is a ToolRetry for the first
\* call naming the result tool, and the only error possible is the exhausted
\* result-retry budget; the run returns, or goes on after that ToolRetry.
C5_OnlyResultCallProcessed ==
    [][(TurnHandled /\ IsToolCalls(TurnMessage) /\ HasResultCall(TurnMessage.calls)) =>
          LET calls == TurnMessage.calls
              first == CHOOSE i \in 1..Len(calls) :
                          /\ calls[i].tool_name = result_tool_name
                          /\ \A j \in 1..(i - 1) : calls[j].tool_name # result_tool_name
              m == Len(messages)
          IN /\ coros' = <<>> /\ coros = <<>>
             /\ _current_retry' = _current_retry
             /\ pc' \in {"returned", "request", "raised"}
             /\ pc' = "returned" => /\ Len(messages') = m + 1
                                    /\ run_result' # None
             /\ pc' = "request" => /\ Len(messages') = m + 2
                                   /\ messages'[m + 2].role = "tool-retry"
                                   /\ messages'[m + 2].tool_id = calls[first].tool_id
                                   /\ messages'[m + 2].tool_name = result_tool_name
             /\ pc' = "raised" => /\ Len(messages') = m + 1
                                  /\ error' = "RuntimeError: Exceeded maximum retries"
                                  /\ _current_result_retry' > _max_result_retries]_vars

\* C5 witness: the run has returned on a turn whose calls name a registered
\* retriever, an unregistered name and, last, the result tool, or name the
\* result tool and then an unregistered name.
C5_Witness ==
    /\ pc = "returned"
    /\ _result_tool # None
    /\ LET last == messages[Len(messages)] IN
       /\ IsToolCalls(last)
       /\ Len(last.calls) >= 2
       /\ \E i \in 1..Len(last.calls) : last.calls[i].tool_name = UnknownName
       /\ last.calls[Len(last.calls)].tool_name = result_tool_name
    /\ _current_retry = [name \in RetrieverNames |-> 0]

\* C6: with no result schema, or with one that allows plain text, a text turn
\* ends the run: only the model's message is appended and the value returned
\* is that message's text.
C6_TextEndsRun ==
    [][(/\ TurnHandled
        /\ TurnMessage.role = "llm-response"
        /\ (_result_tool = None \/ _result_tool.allow_text_result)) =>
          /\ pc' = "returned"
          /\ messages' = Append(messages, TurnMessage)
          /\ run_result' = Some(TurnMessage.content)
          /\ TurnMessage.content \in Texts]_vars

\* C6 witness: a run of an agent whose result schema allows text has returned
\* the text of its second turn.
C6_Witness ==
    /\ pc = "returned"
    /\ _result_tool # None
    /\ messages[Len(messages)] = LLMResponse("text2")
    /\ run_result = Some("text2")
    /\ \E k \in 1..Len(messages) : IsToolCalls(messages[k])

\* C7: with a result schema that does not allow plain text, a text turn does
\* not end the run: the model's message and one PlainResponseForbidden are
\* appended, nothing is returned, and the loop is at its next request.
C7_TextForbiddenContinues ==
    [][(/\ TurnHandled
        /\ TurnMessage.role = "llm-response"
        /\ _result_tool # None
        /\ ~ _result_tool.allow_text_result) =>
          /\ pc' = "request"
          /\ messages' = messages \o <<TurnMessage, PlainResponseForbidden>>
          /\ run_result' = None
          /\ error' = "none"]_vars

\* C7 witness: the model was asked again after a PlainResponseForbidden.
C7_Witness ==
    \E k \in 1..(Len(messages) - 1) :
       /\ messages[k] = PlainResponseForbidden
       /\ messages[k + 1].role \in {"llm-response", "llm-tool-calls"}
       /\ k >= 2 /\ messages[k - 1].role = "llm-response"

\* C8 as stated: when the next request is issued or the run returns, every
\* call of every tool-calls message has exactly one ToolReturn or ToolRetry
\* with its tool_id among the messages right after that message.
C8_Original ==
    pc \in {"request", "returned"} =>
       \A m \in 1..Len(messages) : IsToolCalls(messages[m]) =>
          \A i \in 1..Len(messages[m].calls) :
             Cardinality({j \in (m + 1)..(m + Len(messages[m].calls)) :
                             /\ j <= Len(messages)
                             /\ IsToolResult(messages[j])
                             /\ messages[j].tool_id = messages[m].calls[i].tool_id}) = 1

\* C8 amended: the same for every tool-calls message that has no call naming
\* the configured result tool.
C8_EveryCallAnswered ==
    pc \in {"request", "returned"} =>
       \A m \in 1..Len(messages) :
          (IsToolCalls(messages[m]) /\ ~ HasResultCall(messages[m].calls)) =>
             \A i \in 1..Len(messages[m].calls) :
                Cardinality({j \in (m + 1)..(m + Len(messages[m].calls)) :
                                /\ j <= Len(messages)
                                /\ IsToolResult(messages[j])
                                /\ messages[j].tool_id = messages[m].calls[i].tool_id}) = 1

\* C8 witness: the run has returned and its log has a turn of two calls to
\* retrievers, one answered by a ToolReturn and one by a ToolRetry.
C8_Witness ==
    /\ pc = "returned"
    /\ \E m \in 1..Len(messages) :
          /\ IsToolCalls(messages[m])
          /\ Len(messages[m].calls) = 2
          /\ m + 2 <= Len(messages)
          /\ {messages[m + 1].role, messages[m + 2].role} = {"tool-return", "tool-retry"}

\* C9: a turn without a result call in which a call names no registered
\* retriever ends the run with the unknown-name error in the step that
\* handles it: no coroutine is made, no retriever counter changes and only
\* the model's message is appended; and as long as that error stands no
\* coroutine exists and the model's message is the last one.
C9_UnknownNameAborts ==
    [][/\ (/\ TurnHandled
           /\ IsToolCalls(TurnMessage)
           /\ ~ HasResultCall(TurnMessage.calls)
           /\ \E i \in 1..Len(TurnMessage.calls) :
                 TurnMessage.calls[i].tool_name \notin RetrieverNames) =>
             /\ pc' = "raised"
             /\ error' = "ValueError: Unknown function name"
             /\ coros' = <<>>
             /\ _current_retry' = _current_retry
             /\ messages' = Append(messages, TurnMessage)
             /\ run_result' = None
       /\ (error = "ValueError: Unknown function name" /\ error' = error) =>
             /\ coros' = <<>>
             /\ messages' = messages]_vars

\* C9 witness: the run was aborted on a turn that names a registered
\* retriever before the unknown name.
C9_Witness ==
    /\ pc = "raised"
    /\ error = "ValueError: Unknown function name"
    /\ LET last == messages[Len(messages)] IN
       /\ IsToolCalls(last)
       /\ Len(last.calls) = 2
       /\ last.calls[1].tool_name \in RetrieverNames
       /\ last.calls[2].tool_name = UnknownName
    /\ coros = <<>>

\* C10: run() leaves every retriever's counter at 0 before its first request;
\* handling a model turn never changes a counter; and a counter decreases in
\* no other step than the start of a run or a successful call of its own
\* retriever.
C10_ResetOncePerRun ==
    [][/\ (pc \in {"idle", "returned", "raised"} /\ pc' = "request") =>
             \A name \in RetrieverNames : _current_retry'[name] = 0
       /\ TurnHandled => _current_retry' = _current_retry
       /\ \A name \in RetrieverNames :
             _current_retry'[name] < _current_retry[name] =>
                \/ pc \in {"idle", "returned", "raised"} /\ pc' = "request"
                \/ /\ _current_retry'[name] = 0
                   /\ \/ \E i \in 1..Len(coros) :
                            CallSucceeds(i) /\ coros[i].call.tool_name = name
                      \/ detached'[name] < detached[name]]_vars

\* C10 witness: a retriever failed in the first turn of a run and again in the
\* second turn, where it is the only call: its counter is 2.
C10_Witness ==
    /\ pc = "gather"
    /\ Len(coros) = 1
    /\ coros[1].st = "raised"
    /\ _current_retry[coros[1].call.tool_name] = 2
    /\ \E k \in 1..Len(messages) :
          /\ messages[k].role = "tool-retry"
          /\ messages[k].tool_name = coros[1].call.tool_name

\* The step handles a turn with a result call and the result is rejected, by
\* the schema or by a result validator.
ResultFails ==
    /\ TurnHandled
    /\ IsToolCalls(TurnMessage)
    /\ HasResultCall(TurnMessage.calls)
    /\ pc' # "returned"

\* C11: a rejected result adds one to the result-retry counter, whichever of
\* the schema and the validators rejected it; while the counter stays within
\* max_result_retries one ToolRetry is appended and the run goes on, and a
\* failure that takes it above max_result_retries raises; no other step of a
\* run changes the counter.
C11_ResultRetryBudget ==
    [][/\ ResultFails =>
             /\ _current_result_retry' = _current_result_retry + 1
             /\ _current_result_retry' <= _max_result_retries =>
                   /\ pc' = "request"
                   /\ Len(messages') = Len(messages) + 2
                   /\ messages'[Len(messages) + 2].role = "tool-retry"
                   /\ messages'[Len(messages) + 2].content
                         \in {"validation-errors", "retry-message"}
             /\ _current_result_retry' > _max_result_retries =>
                   /\ pc' = "raised"
                   /\ error' = "RuntimeError: Exceeded maximum retries"
       /\ ~ ResultFails => _current_result_retry' = _current_result_retry]_vars

\* C11 witness: in one run the schema rejected the result of the first turn and
\* a second rejection, one turn later, exhausted a budget of one retry.
C11_Witness ==
    /\ n_runs = 1
    /\ pc = "raised"
    /\ error = "RuntimeError: Exceeded maximum retries"
    /\ _max_result_retries = 1
    /\ _current_result_retry = 2
    /\ \E k \in 1..Len(messages) :
          /\ messages[k].role = "tool-retry"
          /\ messages[k].tool_name = result_tool_name
          /\ messages[k].content = "validation-errors"

BudgetErrors == {"retry limit exceeded", "RuntimeError: Exceeded maximum retries"}

\* C12: a failure that exhausts a budget ends the run with an error and
\* without a result, and nothing is appended for the failing call: a rejected
\* result above max_result_retries raises with the model's message as the last
\* one; a retriever call whose failure takes its counter above max_retries
\* raises and returns no message, its gather never returns and the step that
\* raises in the handler appends nothing; and whenever a run has ended on an
\* exhausted budget it has no result and its last message is the model's
\* tool-calls message.
C12_ExhaustedBudgetAborts ==
    [][/\ (ResultFails /\ _current_result_retry + 1 > _max_result_retries) =>
             /\ pc' = "raised"
             /\ run_result' = None
             /\ messages' = Append(messages, TurnMessage)
       /\ \A i \in 1..Len(coros) :
             (CallFails(i) /\ _current_retry'[coros[i].call.tool_name]
                                 > max_retries[coros[i].call.tool_name]) =>
                /\ coros'[i].st = "raised"
                /\ coros'[i].result = None
       /\ (pc = "gather" /\ \E i \in 1..Len(coros) : coros[i].st = "raised") =>
             /\ pc' # "request"
             /\ messages' = messages
       /\ (pc = "gather" /\ pc' = "raised") =>
             /\ \E i \in 1..Len(coros) : coros[i].st = "raised"
             /\ error' \in BudgetErrors
       /\ (pc = "raised" /\ error \in BudgetErrors) =>
             /\ run_result = None
             /\ IsToolCalls(messages[Len(messages)])]_vars

\* C12 witness: a retriever was retried in the first turn and exhausted its
\* budget in the second; the run has ended with the error, without a result,
\* and the second turn's model message is the last message.
C12_Witness ==
    /\ pc = "raised"
    /\ error = "retry limit exceeded"
    /\ run_result = None
    /\ LET last == messages[Len(messages)] IN
       /\ IsToolCalls(last)
       /\ Len(last.calls) = 1
       /\ _current_retry[last.calls[1].tool_name] = max_retries[last.calls[1].tool_name] + 1
       /\ messages[Len(messages) - 1].role = "tool-retry"
       /\ messages[Len(messages) - 1].tool_name = last.calls[1].tool_name

\* The tool-calls message a tool-result message at position j answers: the
\* nearest tool-calls message before j.
RoundOf(j) ==
    CHOOSE m \in 0..(j - 1) :
       /\ m = 0 \/ IsToolCalls(messages[m])
       /\ \A k \in (m + 1)..(j - 1) : ~ IsToolCalls(messages[k])

\* C13: a model request is made only while no coroutine of the run exists;
\* while coroutines exist the last message is the model's message they belong
\* to, one coroutine per call, and no request is made; and every tool-result
\* message in the log answers a call of the nearest model tool-calls message
\* before it, with only tool-result messages of the same round in between.
C13_RoundsDoNotInterleave ==
    /\ [](/\ pc = "request" => coros = <<>>
          /\ pc = "gather" =>
                /\ IsToolCalls(messages[Len(messages)])
                /\ Len(coros) = Len(messages[Len(messages)].calls)
                /\ \A i \in 1..Len(coros) :
                      coros[i].call = messages[Len(messages)].calls[i]
          /\ \A j \in 1..Len(messages) : IsToolResult(messages[j]) =>
                LET m == RoundOf(j) IN
                /\ m >= 1
                /\ \E i \in 1..Len(messages[m].calls) :
                      messages[m].calls[i].tool_id = messages[j].tool_id
                /\ \A k \in (m + 1)..(j - 1) : IsToolResult(messages[k])
                /\ j <= m + Len(messages[m].calls))
    /\ [][/\ TurnHandled => (pc = "request" /\ coros = <<>>)
          /\ pc = "gather" => n_requests' = n_requests]_vars

\* C13 witness: the second request of a run was made after both results of the
\* first round had been appended, and the second round's coroutines exist.
C13_Witness ==
    /\ pc = "gather"
    /\ Len(coros) >= 1
    /\ \E m \in 1..Len(messages) :
          /\ IsToolCalls(messages[m])
          /\ Len(messages[m].calls) = 2
          /\ m + 3 = Len(messages)
          /\ IsToolResult(messages[m + 1])
          /\ IsToolResult(messages[m + 2])
          /\ IsToolCalls(messages[m + 3])

(***************************************************************************)
(* C14                                                                     *)
(***************************************************************************)
\* The items of the list the caller passed as message_history, as the caller
\* sees them now: they are run()'s messages if run() appends to that very list.
CallerList ==
    IF messages_id = caller_history.value.id THEN messages ELSE caller_history.value.items

\* The step is run() reaching its loop.
RunStarts == n_runs' = n_runs + 1

\* C14: a run given a message history starts its conversation as that history
\* followed by the new user prompt, with no system prompt added and no dynamic
\* system-prompt function invoked, and the caller's list keeps its items for
\* the whole run; a run without history starts with the static system prompt,
\* then one prompt per dynamic function in registration order, each invoked
\* once, then the user prompt.
C14_HistoryStartsConversation ==
    /\ [](caller_history # None => CallerList = caller_history.value.items)
    /\ [][RunStarts =>
            IF caller_history' # None
            THEN /\ messages' = caller_history'.value.items \o <<UserPrompt("user-prompt")>>
                 /\ \A i \in 1..Len(_system_prompt_functions) : system_prompt_calls'[i] = 0
            ELSE /\ messages' = <<SystemPrompt("static-prompt"),
                                   SystemPrompt("dynamic-prompt-1"),
                                   SystemPrompt("dynamic-prompt-2"),
                                   UserPrompt("user-prompt")>>
                 /\ \A i \in 1..Len(_system_prompt_functions) : system_prompt_calls'[i] = 1]_vars

\* A run that was given a two-message history has appended the user prompt, a
\* tool turn and its tool result, and the caller's list still has two items.
C14_Witness ==
    /\ caller_history # None
    /\ Len(caller_history.value.items) = 2
    /\ Len(CallerList) = 2
    /\ Len(messages) = 5
    /\ messages[1] = UserPrompt("earlier-prompt")
    /\ messages[3] = UserPrompt("user-prompt")
    /\ IsToolCalls(messages[4])
    /\ messages[5].role = "tool-return"
    /\ system_prompt_calls = <<0, 0>>
    /\ pc = "request"

(***************************************************************************)
(* C15                                                                     *)
(***************************************************************************)
\* The event loop changes tasks in this step / the running task takes a step.
TaskSwitches == other' # other
TaskSteps == other' = other

\* The other run() on the agent is inside its loop.
OtherRunUnderWay == other.pc \in {"request", "gather"}

\* C15: the retry counters belong to the agent's retrievers and not to a run:
\* while another run on the agent is under way, the start of a run zeroes every
\* counter, a successful call zeroes its retriever's counter and a failed call
\* adds one to whatever the counter holds, raising exactly when the sum
\* exceeds max_retries; a change of task leaves the counters as they are.
\* Hence a run can hold more than max_retries consecutive ToolRetry messages
\* of one retriever without a fatal error (C15_Witness).
C15_SharedCounters ==
    [][/\ TaskSwitches => _current_retry' = _current_retry
       /\ (TaskSteps /\ OtherRunUnderWay) =>
             /\ RunStarts => \A name \in RetrieverNames : _current_retry'[name] = 0
             /\ \A i \in 1..Len(coros) :
                   LET name == coros[i].call.tool_name IN
                   /\ CallSucceeds(i) => _current_retry'[name] = 0
                   /\ CallFails(i) =>
                         /\ _current_retry'[name] = _current_retry[name] + 1
                         /\ coros'[i].st = "raised"
                               <=> _current_retry'[name] > max_retries[name]]_vars

\* A run whose log ends with two consecutive ToolRetry messages for B, which
\* has max_retries = 1, is still looping: the other run started in between.
C15_Witness ==
    /\ max_retries["B"] = 1
    /\ n_runs = 2
    /\ OtherRunUnderWay
    /\ pc = "request"
    /\ error = "none"
    /\ Len(messages) = 8
    /\ \A k \in {6, 8} : messages[k].role = "tool-retry" /\ messages[k].tool_name = "B"
    /\ \A k \in {5, 7} : IsToolCalls(messages[k])

(***************************************************************************)
(* C16                                                                     *)
(***************************************************************************)
InLoop == pc \in {"request", "gather"}

\* The agent's first run, in which every model turn so far was a batch of
\* calls to registered retrievers and every call that finished has succeeded:
\* the log after the user prompt holds tool-call turns and tool returns only,
\* and a turn without its returns is the batch that is under way.
AllSucceededSoFar ==
    LET first == Len(_init_messages) + 2 IN
    /\ n_runs = 1
    /\ Len(messages) >= first - 1
    /\ \A k \in first..Len(messages) :
          \/ messages[k].role = "tool-return"
          \/ /\ IsToolCalls(messages[k])
             /\ \A c \in 1..Len(messages[k].calls) :
                   messages[k].calls[c].tool_name \in RetrieverNames
             /\ k = Len(messages) => Len(coros) = Len(messages[k].calls)
    /\ \A i \in 1..Len(coros) :
          /\ coros[i].st # "raised"
          /\ coros[i].result # None => coros[i].result.role = "tool-return"

RetrieverRuns(i) ==
    /\ pc = "gather" /\ pc' = "gather"
    /\ coros[i].st \in {"created", "running"}
    /\ coros'[i] # coros[i]

\* The step belongs to a coroutine of retriever `name` nobody awaits any more.
DetachedRuns(name) == detached'[name] < detached[name]

\* The step leaves alone everything but the retry counter of `name`.
OnlyCounterOf(name) ==
    /\ messages' = messages
    /\ _current_result_retry' = _current_result_retry
    /\ \A n \in RetrieverNames \ {name} : _current_retry'[n] = _current_retry[n]

\* The first batch of the agent's first run, on calls to different retrievers:
\* the counters were 0 when it began and no other coroutine is running.
FirstBatchOfDifferentTools ==
    /\ pc = "gather"
    /\ n_runs = 1
    /\ Len(messages) = Len(_init_messages) + 2
    /\ \A i, j \in 1..Len(coros) : i # j => coros[i].call.tool_name # coros[j].call.tool_name

\* C17: a step of Retriever.run for a call to retriever T changes, of the
\* conversation and the counters, T's retry counter only; handling a turn with
\* a result-tool call changes no retriever's counter; so in a batch of calls
\* to different retrievers each counter is what its own call alone leaves:
\* 1 after a failure, 0 otherwise, in the first batch of the first run.
C17_RunTouchesOwnCounterOnly ==
    /\ [][/\ \A i \in 1..Len(coros) :
               (RetrieverRuns(i) => OnlyCounterOf(coros[i].call.tool_name))
           /\ \A name \in RetrieverNames : (DetachedRuns(name) => OnlyCounterOf(name))
           /\ (TurnHandled /\ IsToolCalls(TurnMessage) /\ HasResultCall(TurnMessage.calls))
                 => _current_retry' = _current_retry]_vars
    /\ [](FirstBatchOfDifferentTools =>
             \A i \in 1..Len(coros) :
                _current_retry[coros[i].call.tool_name] =
                   IF coros[i].st = "raised"
                      \/ (coros[i].st = "done" /\ coros[i].result.role = "tool-retry")
                   THEN 1 ELSE 0)

\* A batch of calls to A and B whose calls overlapped: B returned first, then
\* A failed; A's counter is 1 and B's is 0.
C17_Witness ==
    /\ FirstBatchOfDifferentTools
    /\ Len(coros) = 2
    /\ coros[1].call.tool_name = "A" /\ coros[2].call.tool_name = "B"
    /\ completion_order = <<2, 1>>
    /\ coros[1].st = "done" /\ coros[1].result.role = "tool-retry"
    /\ coros[2].st = "done" /\ coros[2].result.role = "tool-return"
    /\ _current_retry["A"] = 1
    /\ _current_retry["B"] = 0

(***************************************************************************)
(* C18                                                                     *)
(***************************************************************************)
\* The turn's result-tool call validates and the run returns its result.
ResultSucceeds ==
    /\ TurnHandled
    /\ IsToolCalls(TurnMessage)
    /\ HasResultCall(TurnMessage.calls)
    /\ pc' = "returned"

\* C18: the result-retry counter never decreases: no step lowers it, the start
\* of a run and a result that validates leave it as it is, so it holds the
\* failures of every run of the agent; and a rejected result met with the
\* counter already above max_result_retries is fatal.
C18_ResultRetryNeverDecreases ==
    [][/\ _current_result_retry' >= _current_result_retry
       /\ RunStarts => _current_result_retry' = _current_result_retry
       /\ ResultSucceeds => _current_result_retry' = _current_result_retry
       /\ (ResultFails /\ _current_result_retry > _max_result_retries) =>
             /\ _current_result_retry' = _current_result_retry + 1
             /\ pc' = "raised"
             /\ error' = "RuntimeError: Exceeded maximum retries"
             /\ run_result' = None]_vars

\* The second run of an agent with max_result_retries = 0 has ended on its
\* first rejected result with the counter at 2: the failure of the first run
\* is still counted.
C18_Witness ==
    /\ n_runs = 2
    /\ _max_result_retries = 0
    /\ _current_result_retry = 2
    /\ pc = "raised"
    /\ error = "RuntimeError: Exceeded maximum retries"
    /\ Len(messages) = Len(_init_messages) + 2
    /\ IsToolCalls(messages[Len(messages)])

(***************************************************************************)
(* C19                                                                     *)
(***************************************************************************)
\* The step handles a text turn of an agent that does not allow text.
TextRejected ==
    /\ TurnHandled
    /\ TurnMessage.role = "llm-response"
    /\ ~ _allow_text_result

\* A run of an agent that does not allow text in which every model turn so
\* far was text: after the user prompt the log holds the model's texts and
\* the PlainResponseForbidden messages only.
AllTextSoFar ==
    LET first == Len(_init_messages) + 2 IN
    /\ ~ _allow_text_result
    /\ n_runs >= 1
    /\ Len(messages) >= first - 1
    /\ \A k \in first..Len(messages) :
          messages[k].role \in {"llm-response", "plain-response-forbidden"}

\* C19: rejecting a forbidden text uses no retry budget: the step that appends
\* PlainResponseForbidden changes no retriever's counter and not the
\* result-retry counter and leaves the loop at its next request with no error;
\* so a run whose model turns are all text is inside its loop, with no error
\* and no result, after any number of turns.
C19_ForbiddenTextCostsNothing ==
    /\ [][TextRejected =>
             /\ _current_retry' = _current_retry
             /\ _current_result_retry' = _current_result_retry
             /\ messages'[Len(messages')] = PlainResponseForbidden
             /\ pc' = "request"
             /\ error' = "none"]_vars
    /\ [](AllTextSoFar => InLoop /\ error = "none" /\ run_result = None)

\* The model has answered every request the lifetime bound allows with text,
\* each text was rejected, both counters are where the run began, and the
\* loop is about to ask again.
C19_Witness ==
    /\ AllTextSoFar
    /\ n_runs = 1
    /\ n_requests = MaxTurns
    /\ Len(messages) = Len(_init_messages) + 1 + 2 * MaxTurns
    /\ messages[Len(messages)] = PlainResponseForbidden
    /\ pc = "request"
    /\ _current_result_retry = 0
    /\ \A name \in RetrieverNames : _current_retry[name] = 0

(***************************************************************************)
(* C20                                                                     *)
(***************************************************************************)
\* The step ends the handler's await of the batch: with the exception of a
\* call that failed fatally / with the messages of all calls.
BatchAborts == pc = "gather" /\ pc' = "raised"
BatchReturns == pc = "gather" /\ pc' = "request"

\* C20: a batch of tool calls is appended as a whole or not at all: while its
\* calls run nothing is appended; when a call has failed fatally the handler
\* ends with the error and appends nothing, whatever the other calls of the
\* batch have returned by then, and the retry counters keep what the calls
\* made of them; otherwise one message per call is appended in one step.
C20_BatchAllOrNothing ==
    [][/\ (pc = "gather" /\ pc' = "gather") => messages' = messages
       /\ BatchAborts =>
             /\ \E i \in 1..Len(coros) : coros[i].st = "raised"
             /\ messages' = messages
             /\ IsToolCalls(messages'[Len(messages')])
             /\ Len(messages'[Len(messages')].calls) = Len(coros)
             /\ _current_retry' = _current_retry
             /\ error' = "retry limit exceeded"
       /\ BatchReturns =>
             /\ \A i \in 1..Len(coros) : coros[i].st = "done"
             /\ Len(messages') = Len(messages) + Len(coros)
             /\ \A i \in 1..Len(coros) : messages'[Len(messages) + i] = coros[i].result]_vars

\* B was retried in an earlier round; in the batch of calls to B and A, B
\* returned first, which put its counter back to 0, then A failed fatally:
\* the run has ended, the log ends with the model's message and has no tool
\* return, and B's counter is still 0.
C20_Witness ==
    /\ pc = "raised"
    /\ error = "retry limit exceeded"
    /\ n_runs = 1
    /\ completion_order = <<1, 2>>
    /\ LET last == messages[Len(messages)] IN
       /\ IsToolCalls(last)
       /\ Len(last.calls) = 2
       /\ last.calls[1].tool_name = "B" /\ last.calls[2].tool_name = "A"
    /\ messages[Len(messages) - 1].role = "tool-retry"
    /\ messages[Len(messages) - 1].tool_name = "B"
    /\ \A k \in 1..Len(messages) : messages[k].role # "tool-return"
    /\ _current_retry["B"] = 0
    /\ _current_retry["A"] = max_retries["A"] + 1
    /\ \A name \in RetrieverNames : detached[name] = 0
====
